---------------------------- MODULE Spec2Model ----------------------------
(***************************************************************************)
(* A model of rfp_gatherer.py: the RFPGatherer class (configuration load,  *)
(* the Indiana IDOA scrape, accumulation, the JSON dump) and main().       *)
(*                                                                         *)
(* Python strings are TLA+ strings (TLC evaluates Len, \o, SubSeq and Tail *)
(* on them), Python lists are sequences, dicts are records.  The fetched   *)
(* page is a DOM tree of records; BeautifulSoup's find / find_all /        *)
(* get_text are recursive operators over that tree.                        *)
(***************************************************************************)
EXTENDS Integers, Sequences, FiniteSets, TLC

(***************************************************************************)
(* Bounds of the model.                                                    *)
(***************************************************************************)
\* process executions of main() in a row, sharing the file system
MaxRuns == 2
\* per-process string-hash seeds are drawn from 0..MaxSeed
MaxSeed == 1
\* gather_rfps / save_to_file calls made on one RFPGatherer by a caller
MaxCalls == 3

(***************************************************************************)
(* Strings.                                                                *)
(***************************************************************************)
Min(a, b) == IF a < b THEN a ELSE b

\* str.startswith
StartsWith(s, p) == Len(s) >= Len(p) /\ SubSeq(s, 1, Len(p)) = p

\* s[:n]
Prefix(s, n) == SubSeq(s, 1, Min(n, Len(s)))

CharAt(s, i) == SubSeq(s, i, i)

IsSpace(c) == c = " "

RECURSIVE LStrip(_)
LStrip(s) ==
    IF Len(s) > 0 /\ IsSpace(CharAt(s, 1)) THEN LStrip(Tail(s)) ELSE s

RECURSIVE RStrip(_)
RStrip(s) ==
    IF Len(s) > 0 /\ IsSpace(CharAt(s, Len(s)))
    THEN RStrip(SubSeq(s, 1, Len(s) - 1))
    ELSE s

\* str.strip
Strip(s) == RStrip(LStrip(s))

Digits == {"0", "1", "2", "3", "4", "5", "6", "7", "8", "9"}

IsDigit(s, i) == i <= Len(s) /\ CharAt(s, i) \in Digits

IsChar(s, i, c) == i <= Len(s) /\ CharAt(s, i) = c

\* the ASCII characters the pages use, in runs of consecutive codes:
\* "-" is code 45, "@" is code 64, "a" is code 97
AsciiPunct == "-./0123456789:"
AsciiUpper == "@ABCDEFGHIJKLMNOPQRSTUVWXYZ"
AsciiLower == "abcdefghijklmnopqrstuvwxyz"

Has(s, c) == \E i \in 1..Len(s) : CharAt(s, i) = c

IndexIn(s, c) == CHOOSE i \in 1..Len(s) : CharAt(s, i) = c

CharsOf(s) == {CharAt(s, i) : i \in 1..Len(s)}

\* the code of every character, tabulated once
CODES ==
    [c \in {" ", "#"} \cup CharsOf(AsciiPunct) \cup CharsOf(AsciiUpper)
              \cup CharsOf(AsciiLower) |->
        IF c = " " THEN 32
        ELSE IF c = "#" THEN 35
        ELSE IF Has(AsciiPunct, c) THEN 44 + IndexIn(AsciiPunct, c)
        ELSE IF Has(AsciiUpper, c) THEN 63 + IndexIn(AsciiUpper, c)
        ELSE 96 + IndexIn(AsciiLower, c)]

\* ord(c)
Ord(c) == CODES[c]

DigitStr(d) == CharAt("0123456789", d + 1)

\* the format specification :04d, for 0 <= n < 10000
Fmt04(n) ==
    DigitStr(n \div 1000) \o DigitStr((n \div 100) % 10)
        \o DigitStr((n \div 10) % 10) \o DigitStr(n % 10)

(***************************************************************************)
(* hash(str).  CPython keys its string hash with a secret drawn when the   *)
(* interpreter starts (PYTHONHASHSEED unset): within one process equal     *)
(* strings hash equal, across processes the value of one string differs.   *)
(* The keyed hash is modelled as a polynomial hash started from the seed,  *)
(* kept to HashBits bits so that TLC's integers do not overflow.           *)
(***************************************************************************)
HashBits == 20
HashSpace == 2 ^ HashBits

RECURSIVE HashFrom(_, _)
HashFrom(h, s) ==
    IF Len(s) = 0 THEN h
    ELSE HashFrom((h * 31 + Ord(CharAt(s, 1))) % HashSpace, Tail(s))

hash(seed, s) == HashFrom(seed, s)

(***************************************************************************)
(* re.findall(r'\d{1,2}/\d{1,2}/\d{4}|\d{4}-\d{2}-\d{2}', text)            *)
(***************************************************************************)
\* \d{4}-\d{2}-\d{2} at position i: the length matched, 0 when none
MatchIso(s, i) ==
    IF /\ \A k \in 0..3 : IsDigit(s, i + k)
       /\ IsChar(s, i + 4, "-")
       /\ IsDigit(s, i + 5) /\ IsDigit(s, i + 6)
       /\ IsChar(s, i + 7, "-")
       /\ IsDigit(s, i + 8) /\ IsDigit(s, i + 9)
    THEN 10 ELSE 0

\* /\d{1,2}/\d{4} continued from position j with the day greedy, then shorter
SlashTail(s, j) ==
    LET year(k) == \A d \in 0..3 : IsDigit(s, k + d)
        try(n) == /\ \A d \in 0..(n - 1) : IsDigit(s, j + 1 + d)
                  /\ IsChar(s, j + 1 + n, "/")
                  /\ year(j + 2 + n)
    IN  IF ~IsChar(s, j, "/") THEN 0
        ELSE IF try(2) THEN 1 + 2 + 1 + 4
        ELSE IF try(1) THEN 1 + 1 + 1 + 4
        ELSE 0

\* \d{1,2}/\d{1,2}/\d{4} at position i: the length matched, 0 when none
MatchSlash(s, i) ==
    IF IsDigit(s, i) /\ IsDigit(s, i + 1) /\ SlashTail(s, i + 2) > 0
    THEN 2 + SlashTail(s, i + 2)
    ELSE IF IsDigit(s, i) /\ SlashTail(s, i + 1) > 0
    THEN 1 + SlashTail(s, i + 1)
    ELSE 0

RECURSIVE FindDatesFrom(_, _)
FindDatesFrom(s, i) ==
    IF i > Len(s) THEN <<>>
    ELSE LET a == MatchSlash(s, i)
             n == IF a > 0 THEN a ELSE MatchIso(s, i)
         IN  IF n > 0
             THEN <<SubSeq(s, i, i + n - 1)>> \o FindDatesFrom(s, i + n)
             ELSE FindDatesFrom(s, i + 1)

findall_dates(s) == FindDatesFrom(s, 1)

(***************************************************************************)
(* The DOM (BeautifulSoup's tree).  A node is a tag with its children in   *)
(* document order, or a text node ("#text").  raises marks an element      *)
(* whose traversal raises (RecursionError on pathological nesting).        *)
(***************************************************************************)
Txt(s) ==
    [tag |-> "#text", has_href |-> FALSE, href |-> "", text |-> s,
     raises |-> FALSE, kids |-> <<>>]

El(t, kids) ==
    [tag |-> t, has_href |-> FALSE, href |-> "", text |-> "",
     raises |-> FALSE, kids |-> kids]

\* <a href="h">s</a>
Anchor(h, s) ==
    [tag |-> "a", has_href |-> TRUE, href |-> h, text |-> "",
     raises |-> FALSE, kids |-> <<Txt(s)>>]

\* <a>s</a>
AnchorNoHref(s) == El("a", <<Txt(s)>>)

Faulty(n) == [n EXCEPT !.raises = TRUE]

\* the descendants of a list of sibling nodes, in document order
RECURSIVE Descendants(_)
Descendants(nodes) ==
    IF nodes = <<>> THEN <<>>
    ELSE <<Head(nodes)>> \o Descendants(Head(nodes).kids)
             \o Descendants(Tail(nodes))

\* Tag.find_all(tags)
find_all(n, tags) ==
    SelectSeq(Descendants(n.kids), LAMBDA d : d.tag \in tags)

RECURSIVE ConcatAll(_)
ConcatAll(ss) == IF ss = <<>> THEN "" ELSE Head(ss) \o ConcatAll(Tail(ss))

TextNodes(n) ==
    IF n.tag = "#text" THEN <<n>> ELSE find_all(n, {"#text"})

\* Tag.get_text()
get_text(n) ==
    LET ts == TextNodes(n)
    IN  ConcatAll([i \in 1..Len(ts) |-> ts[i].text])

\* Tag.get_text(strip=True)
get_text_strip(n) ==
    LET ts == TextNodes(n)
    IN  ConcatAll([i \in 1..Len(ts) |-> Strip(ts[i].text)])

(***************************************************************************)
(* fetch_indiana_idoa_rfps                                                 *)
(***************************************************************************)
\* the local variable url of fetch_indiana_idoa_rfps
PAGE_URL == "https://www.in.gov/idoa/procurement/current-business-opportunities/"

\* the sample data of both fallback branches
SAMPLE_RFPS ==
    << [title |-> "Technology Services for State Systems",
        agency |-> "Indiana Department of Administration",
        posted_date |-> "2024-02-01",
        due_date |-> "2024-03-15",
        notice_id |-> "IN-IDOA-001-2024",
        description |-> "Request for proposals for technology services and systems integration",
        source |-> "Indiana IDOA",
        url |-> PAGE_URL],
       [title |-> "Consulting Services for Digital Transformation",
        agency |-> "Indiana Department of Administration",
        posted_date |-> "2024-02-05",
        due_date |-> "2024-03-20",
        notice_id |-> "IN-IDOA-002-2024",
        description |-> "State-wide digital transformation consulting and implementation services",
        source |-> "Indiana IDOA",
        url |-> PAGE_URL],
       [title |-> "Cloud Migration and Infrastructure Services",
        agency |-> "Indiana Department of Administration",
        posted_date |-> "2024-02-10",
        due_date |-> "2024-03-25",
        notice_id |-> "IN-IDOA-003-2024",
        description |-> "Cloud infrastructure services for state agency systems migration",
        source |-> "Indiana IDOA",
        url |-> PAGE_URL] >>

\* Pattern 1: the table rows with at least three cells
table_rows(soup) ==
    SelectSeq(find_all(soup, {"tr"}),
              LAMBDA row : Len(find_all(row, {"td", "th"})) >= 3)

\* Pattern 2: the list items of every list, list by list
RECURSIVE ItemsOf(_)
ItemsOf(lists) ==
    IF lists = <<>> THEN <<>>
    ELSE find_all(Head(lists), {"li"}) \o ItemsOf(Tail(lists))

list_items(soup) == ItemsOf(find_all(soup, {"ul", "ol"}))

\* Pattern 3: the article and section elements
articles(soup) == find_all(soup, {"article", "section"})

rfp_elements(soup) == table_rows(soup) \o list_items(soup) \o articles(soup)

TITLE_TAGS == {"a", "h1", "h2", "h3", "h4", "strong"}

\* element.find(['a', 'h1', 'h2', 'h3', 'h4', 'strong']): empty when None
title_elem(element) == find_all(element, TITLE_TAGS)

\* link.get('href', '') if link else ''
element_href(element) ==
    LET links == find_all(element, {"a"})
    IN  IF links # <<>> /\ links[1].has_href THEN links[1].href ELSE ""

\* the rewrite of a href that does not start with http
absolute_url(rfp_url) ==
    IF rfp_url # "" /\ ~StartsWith(rfp_url, "http")
    THEN "https://www.in.gov" \o rfp_url
    ELSE rfp_url

\* rfp_url or url
record_url(href) ==
    IF absolute_url(href) # "" THEN absolute_url(href) ELSE PAGE_URL

\* f"IN-IDOA-{hash(title) % 10000:04d}"
notice_id_of(seed, title) == "IN-IDOA-" \o Fmt04(hash(seed, title) % 10000)

\* the title test before the record is built
title_rejected(title) == title = "" \/ Len(title) < 5

\* the title test before the record is appended
meaningful(title) == title # "" /\ Len(title) > 10

\* the record built from an element whose title is title
build_rfp(element, title, seed, today) ==
    LET text_content == get_text(element)
        dates == findall_dates(text_content)
    IN  [title |-> title,
         agency |-> "Indiana Department of Administration",
         posted_date |-> IF Len(dates) > 0 THEN dates[1] ELSE today,
         due_date |-> IF Len(dates) > 1 THEN dates[2] ELSE "",
         notice_id |-> notice_id_of(seed, title),
         description |-> Strip(Prefix(text_content, 200)),
         source |-> "Indiana IDOA",
         url |-> record_url(element_href(element))]

\* one pass of the loop body: the records it appends (none, or one)
extract_element(element, seed, today) ==
    IF element.raises THEN <<>>
    ELSE IF title_elem(element) = <<>> THEN <<>>
    ELSE LET title == get_text_strip(title_elem(element)[1])
         IN  IF title_rejected(title) THEN <<>>
             ELSE IF meaningful(title)
             THEN <<build_rfp(element, title, seed, today)>>
             ELSE <<>>

RECURSIVE ExtractAll(_, _, _)
ExtractAll(elements, seed, today) ==
    IF elements = <<>> THEN <<>>
    ELSE extract_element(Head(elements), seed, today)
             \o ExtractAll(Tail(elements), seed, today)

\* the records the scrape of a fetched page appends, before any fallback
scraped(soup, seed, today) == ExtractAll(rfp_elements(soup), seed, today)

\* what requests.get, raise_for_status and BeautifulSoup can do
REQUEST_FAILURES == {"ConnectionError", "Timeout", "HTTPError"}
OUTCOMES == {"ok", "ParseError"} \cup REQUEST_FAILURES

\* fetch_indiana_idoa_rfps without its last handler: an exception that is
\* no RequestException leaves the function
fetch_no_catch_all(outcome, soup, seed, today) ==
    IF outcome \in REQUEST_FAILURES
    THEN [raised |-> FALSE, rfps |-> SAMPLE_RFPS]
    ELSE IF outcome = "ParseError"
    THEN [raised |-> TRUE, rfps |-> <<>>]
    ELSE [raised |-> FALSE,
          rfps |-> IF scraped(soup, seed, today) = <<>>
                   THEN SAMPLE_RFPS
                   ELSE scraped(soup, seed, today)]

\* fetch_indiana_idoa_rfps: what it returns, and whether it raises
fetch_indiana_idoa_rfps(outcome, soup, seed, today) ==
    IF outcome \in REQUEST_FAILURES
    THEN [raised |-> FALSE, rfps |-> SAMPLE_RFPS]
    ELSE IF outcome = "ParseError"
    THEN [raised |-> FALSE, rfps |-> <<>>]
    ELSE [raised |-> FALSE,
          rfps |-> IF scraped(soup, seed, today) = <<>>
                   THEN SAMPLE_RFPS
                   ELSE scraped(soup, seed, today)]

(***************************************************************************)
(* The pages the model fetches.                                            *)
(***************************************************************************)
Soup(kids) == El("[document]", kids)

Cell(kids) == El("td", kids)

\* a table row: a linked title and two dates
Row(h, t) ==
    El("tr", << Cell(<<Anchor(h, t)>>), Cell(<<Txt("02/01/2024")>>),
                Cell(<<Txt("3/5/2024")>>) >>)

HeaderRow ==
    El("tr", << El("th", <<Txt("Title")>>), El("th", <<Txt("Posted")>>),
                El("th", <<Txt("Due")>>) >>)

\* a list item: a title link, then free text
Item(a, rest) == El("li", <<a, Txt(rest)>>)

TablePage(rows) == Soup(<< El("table", <<HeaderRow>> \o rows) >>)

ListPage(items) == Soup(<< El("ul", items) >>)

PAGES ==
    {
      \* nothing to extract
      Soup(<< El("p", <<Txt("No current opportunities")>>) >>),
      \* rows whose titles are all too short: 3, 9 (once stripped) and 10
      TablePage(<< Row("/idoa/opp/11", "RFP"), Row("/idoa/opp/12", " Road Work "),
                   Row("/idoa/opp/13", "Snow Plows") >>),
      \* rows whose titles are 10, 11 and 27 characters long
      TablePage(<< Row("/idoa/opp/13", "Snow Plows"),
                   Row("/idoa/opp/14", "Bridge Deck"),
                   Row("/idoa/opp/15", "Statewide Fleet Maintenance") >>),
      \* one item per shape of href
      ListPage(<< Item(Anchor("", "Actuarial Services"), " due 2024-03-15"),
                  Item(Anchor("https://www.in.gov/idoa/opp/7", "Boiler Replacement"), ""),
                  Item(Anchor("/idoa/opp/123", "Courier Services"), ""),
                  Item(Anchor("opp/123", "Document Shredding"), ""),
                  Item(Anchor("#bids", "Elevator Maintenance"), ""),
                  Item(Anchor("//cdn.in.gov/rfp.pdf", "Fuel Card Program"), ""),
                  Item(Anchor("mailto:bids@idoa.in.gov", "Grounds Keeping"), "") >>),
      \* a link without href, and no date in the text
      ListPage(<< Item(AnchorNoHref("Janitorial Services"), " open until filled") >>),
      \* a row with two cells only
      Soup(<< El("table", << El("tr", << Cell(<<Anchor("/idoa/opp/9",
                  "Elevator Inspection")>>), Cell(<<Txt("02/01/2024")>>) >>) >>) >>),
      \* a list inside a section: the item and the section find one title
      Soup(<< El("section", << El("h2", <<Anchor("/idoa/opp/123",
                  "Statewide Fleet Maintenance")>>),
              El("ul", <<Item(Anchor("/idoa/opp/123",
                  "Statewide Fleet Maintenance"), " due 2024-03-15")>>) >>) >>),
      \* a list inside a list item: the inner item is found by both lists
      ListPage(<< El("li", << El("strong", <<Txt("Open solicitations")>>),
                  El("ul", <<Item(Anchor("/idoa/opp/4", "Armored Car Service"),
                      " 2024-02-01")>>) >>) >>),
      \* two notices whose titles hash alike
      Soup(<< El("ol", << Item(Anchor("/idoa/opp/5", "Paving Zone Aa"), ""),
                          Item(Anchor("/idoa/opp/6", "Paving Zone BB"), "") >>) >>),
      \* an element that raises, before one that parses
      ListPage(<< Faulty(Item(Anchor("/idoa/opp/1", "Uniform Rental Services"), "")),
                  Item(Anchor("/idoa/opp/2", "Mowing Services North"), "") >>),
      \* an article with a heading and no link
      Soup(<< El("article", << El("h3", <<Txt("Vending Services at Rest Areas")>>),
                  El("p", <<Txt("Posted 1/15/2024, due 12/1/2024")>>) >>) >>)
    }

(***************************************************************************)
(* Configuration files and RFPGatherer.__init__.  A parsed JSON value is   *)
(* tagged with its Python type; a dict carries its items.                  *)
(***************************************************************************)
Dict(items) == [type |-> "dict", items |-> items]

\* the value json.load returns for a file that is valid JSON
JSON_VALUES ==
    { Dict(<<>>),
      Dict([output_file |-> "rfps.json", min_title_length |-> 5]),
      Dict([min_title_length |-> 12]),
      [type |-> "list", items |-> <<>>] }

CONFIG_FILES ==
    { [kind |-> "missing", value |-> [type |-> "none", items |-> <<>>]],
      [kind |-> "malformed", value |-> [type |-> "none", items |-> <<>>]] }
    \cup { [kind |-> "json", value |-> v] : v \in JSON_VALUES }

UNSET == [type |-> "none", items |-> <<>>]

\* dict.get(key, default)
dict_get(d, key, default) ==
    IF key \in DOMAIN d.items THEN d.items[key] ELSE default

\* RFPGatherer.__init__: the exception it raises ("" when none) and the
\* fields it sets
init_gatherer(f) ==
    IF f.kind = "missing"
    THEN [raised |-> "FileNotFoundError", config |-> UNSET, rfps |-> <<>>]
    ELSE IF f.kind = "malformed"
    THEN [raised |-> "JSONDecodeError", config |-> UNSET, rfps |-> <<>>]
    ELSE [raised |-> "", config |-> f.value, rfps |-> <<>>]

(***************************************************************************)
(* save_to_file and the files it writes.  A file holds the JSON document   *)
(* json.dump wrote in full ("complete"), nothing after open(filename, 'w') *)
(* truncated it ("empty"), or the part written before a write failed       *)
(* ("partial").                                                            *)
(***************************************************************************)
PATHS == {"rfp_data.json", "rfps.json", "export.json"}

ABSENT == [kind |-> "absent", data |-> <<>>]
EMPTY_FILE == [kind |-> "empty", data |-> <<>>]
PARTIAL_FILE == [kind |-> "partial", data |-> <<>>]
Complete(doc) == [kind |-> "complete", data |-> doc]

\* datetime.now().isoformat() on the day today
iso_now(today) == today \o "T09:30:00.000000"

\* an output_data whose count is taken before the last record
output_data_miscount(rfps, now) ==
    [collected_at |-> now,
     total_rfps |-> IF rfps = <<>> THEN 0 ELSE Len(rfps) - 1,
     rfps |-> rfps]

\* the dict save_to_file dumps
output_data(rfps, now) ==
    [collected_at |-> now, total_rfps |-> Len(rfps), rfps |-> rfps]

\* the filename save_to_file writes: the exception raised ("" when none)
\* and the path; NONE is the default argument
NONE == "<None>"

save_filename(config, filename) ==
    IF filename # NONE THEN [raised |-> "", path |-> filename]
    ELSE IF config.type # "dict"
    THEN [raised |-> "AttributeError", path |-> NONE]
    ELSE [raised |-> "", path |-> dict_get(config, "output_file", "rfp_data.json")]

\* the titles display_summary prints, in order
display_lines(rfps) == [i \in 1..Len(rfps) |-> rfps[i].title]

(***************************************************************************)
(* State.                                                                  *)
(***************************************************************************)
VARIABLES
    page,       \* the page the source serves
    cfgfile,    \* config.json
    fs,         \* the files at the output paths
    run,        \* which execution of main() this is
    pc,         \* where main() is, or "api" for a caller of the class
    hashseed,   \* the interpreter's string-hash secret
    today,      \* the day the process runs
    config,     \* self.config
    rfps,       \* self.rfps
    exit_code,  \* the process's exit code, -1 while it runs
    outcome,    \* what the latest source fetch met ("none" before)
    fetched,    \* the list the latest fetch_indiana_idoa_rfps returned
    returned,   \* the list the latest gather_rfps returned
    summary,    \* what display_summary printed last
    displayed,  \* display_summary was called
    saved,      \* the latest save_to_file: its path, status, the file before, the call
    prev,       \* the previous execution: its records, its day, whether scraped live
    calls,      \* calls a caller made on the RFPGatherer
    log         \* the list each gather_rfps call's fetch returned

vars ==
    <<page, cfgfile, fs, run, pc, hashseed, today, config, rfps, exit_code,
      outcome, fetched, returned, summary, displayed, saved, prev, calls, log>>

world == <<page, cfgfile>>

DAYS == {"2026-11-03", "2026-11-04"}

NOT_SAVED == [path |-> NONE, status |-> "none", before |-> ABSENT, at |-> 0]
NO_PREV == [live |-> FALSE, rfps |-> <<>>, today |-> ""]

\* a process that has not started
Fresh ==
    /\ hashseed = 0
    /\ today = "2026-11-03"
    /\ config = UNSET
    /\ rfps = <<>>
    /\ exit_code = -1
    /\ outcome = "none"
    /\ fetched = <<>>
    /\ returned = <<>>
    /\ summary = <<>>
    /\ displayed = FALSE
    /\ saved = NOT_SAVED

Init ==
    /\ page \in PAGES
    /\ cfgfile \in CONFIG_FILES
    /\ fs = [p \in PATHS |-> ABSENT]
    /\ run = 1
    /\ pc = "start"
    /\ Fresh
    /\ prev = NO_PREV
    /\ calls = 0
    /\ log = <<>>

(***************************************************************************)
(* main()                                                                  *)
(***************************************************************************)
\* sys.exit(code), at the end of main or in one of its handlers
Exit(code) ==
    /\ exit_code' = code
    /\ pc' = "exited"

\* the interpreter starts
ProcessStart ==
    /\ pc = "start"
    /\ hashseed' \in 0..MaxSeed
    /\ today' \in DAYS
    /\ pc' = "construct"
    /\ UNCHANGED <<world, fs, run, config, rfps, exit_code, outcome, fetched,
                   returned, summary, displayed, saved, prev, calls, log>>

\* gatherer = RFPGatherer()
MainConstruct ==
    /\ pc = "construct"
    /\ LET g == init_gatherer(cfgfile)
       IN  IF g.raised # ""
           THEN Exit(1) /\ UNCHANGED <<config, rfps>>
           ELSE /\ config' = g.config
                /\ rfps' = g.rfps
                /\ pc' = "gather"
                /\ UNCHANGED exit_code
    /\ UNCHANGED <<world, fs, run, hashseed, today, outcome, fetched,
                   returned, summary, displayed, saved, prev, calls, log>>

\* gatherer.gather_rfps()
MainGather ==
    /\ pc = "gather"
    /\ \E o \in OUTCOMES :
         LET r == fetch_indiana_idoa_rfps(o, page, hashseed, today)
         IN  /\ outcome' = o
             /\ IF r.raised
                THEN Exit(1) /\ UNCHANGED <<rfps, fetched, returned>>
                ELSE /\ fetched' = r.rfps
                     /\ rfps' = rfps \o r.rfps
                     /\ returned' = rfps'
                     /\ pc' = "display"
                     /\ UNCHANGED exit_code
    /\ UNCHANGED <<world, fs, run, hashseed, today, config, summary,
                   displayed, saved, prev, calls, log>>

\* gatherer.display_summary()
MainDisplay ==
    /\ pc = "display"
    /\ summary' = display_lines(rfps)
    /\ displayed' = TRUE
    /\ pc' = "save"
    /\ UNCHANGED <<world, fs, run, hashseed, today, config, rfps, exit_code,
                   outcome, fetched, returned, saved, prev, calls, log>>

\* gatherer.save_to_file(), up to open(filename, 'w')
MainSaveOpen ==
    /\ pc = "save"
    /\ LET f == save_filename(config, NONE)
       IN  IF f.raised # ""
           THEN /\ saved' = [path |-> NONE, status |-> "failed", before |-> ABSENT,
                           at |-> 0]
                /\ Exit(1)
                /\ UNCHANGED fs
           ELSE \E opened \in BOOLEAN :
                  IF opened
                  THEN /\ saved' = [path |-> f.path, status |-> "open",
                                    before |-> fs[f.path], at |-> 0]
                       /\ fs' = [fs EXCEPT ![f.path] = EMPTY_FILE]
                       /\ pc' = "write"
                       /\ UNCHANGED exit_code
                  ELSE /\ saved' = [path |-> f.path, status |-> "failed",
                                    before |-> fs[f.path], at |-> 0]
                       /\ Exit(1)
                       /\ UNCHANGED fs
    /\ UNCHANGED <<world, run, hashseed, today, config, rfps, outcome,
                   fetched, returned, summary, displayed, prev, calls, log>>

\* gatherer.save_to_file(), json.dump and the close of the file; then the
\* end of main
MainSaveWrite ==
    /\ pc = "write"
    /\ \E written \in BOOLEAN :
         IF written
         THEN /\ fs' = [fs EXCEPT ![saved.path] =
                           Complete(output_data(rfps, iso_now(today)))]
              /\ saved' = [saved EXCEPT !.status = "ok"]
              /\ Exit(0)
         ELSE /\ fs' = [fs EXCEPT ![saved.path] = PARTIAL_FILE]
              /\ saved' = [saved EXCEPT !.status = "failed"]
              /\ Exit(1)
    /\ UNCHANGED <<world, run, hashseed, today, config, rfps, outcome,
                   fetched, returned, summary, displayed, prev, calls, log>>

\* the tool is run again: a new process, the same files
NextRun ==
    /\ pc = "exited"
    /\ run < MaxRuns
    /\ run' = run + 1
    /\ prev' = [live |-> outcome = "ok" /\ scraped(page, hashseed, today) # <<>>,
                rfps |-> rfps, today |-> today]
    /\ pc' = "start"
    /\ hashseed' = 0
    /\ today' = "2026-11-03"
    /\ config' = UNSET
    /\ rfps' = <<>>
    /\ exit_code' = -1
    /\ outcome' = "none"
    /\ fetched' = <<>>
    /\ returned' = <<>>
    /\ summary' = <<>>
    /\ displayed' = FALSE
    /\ saved' = NOT_SAVED
    /\ UNCHANGED <<world, fs, calls, log>>

Next ==
    \/ ProcessStart
    \/ MainConstruct
    \/ MainGather
    \/ MainDisplay
    \/ MainSaveOpen
    \/ MainSaveWrite
    \/ NextRun

Spec == Init /\ [][Next]_vars

(***************************************************************************)
(* A caller of the class: one RFPGatherer, constructed from a              *)
(* configuration file that loads, on which gather_rfps, display_summary    *)
(* and save_to_file are called in any order.  The caller's process is the  *)
(* one with seed 0 on the first day, and the source serves one of the      *)
(* pages with at most one candidate element.                               *)
(***************************************************************************)
InitAPI ==
    /\ page \in {p \in PAGES : Len(rfp_elements(p)) <= 1}
    /\ cfgfile \in {f \in CONFIG_FILES : init_gatherer(f).raised = ""}
    /\ fs = [p \in PATHS |-> ABSENT]
    /\ run = 1
    /\ pc = "api"
    /\ hashseed = 0
    /\ today = "2026-11-03"
    /\ config = init_gatherer(cfgfile).config
    /\ rfps = init_gatherer(cfgfile).rfps
    /\ exit_code = -1
    /\ outcome = "none"
    /\ fetched = <<>>
    /\ returned = <<>>
    /\ summary = <<>>
    /\ displayed = FALSE
    /\ saved = NOT_SAVED
    /\ prev = NO_PREV
    /\ calls = 0
    /\ log = <<>>

\* what the file system does to one save_to_file call
IO_RESULTS == {"ok", "open_fails", "write_fails"}

\* gatherer.gather_rfps()
ApiGather ==
    /\ pc = "api"
    /\ calls < MaxCalls
    /\ calls' = calls + 1
    /\ \E o \in OUTCOMES :
         LET r == fetch_indiana_idoa_rfps(o, page, hashseed, today)
         IN  /\ outcome' = o
             /\ IF r.raised
                THEN UNCHANGED <<rfps, fetched, returned, log>>
                ELSE /\ fetched' = r.rfps
                     /\ rfps' = rfps \o r.rfps
                     /\ returned' = rfps'
                     /\ log' = Append(log, r.rfps)
    /\ UNCHANGED <<world, fs, run, pc, hashseed, today, config, exit_code,
                   summary, displayed, saved, prev>>

\* gatherer.display_summary()
ApiDisplay ==
    /\ pc = "api"
    /\ calls < MaxCalls
    /\ calls' = calls + 1
    /\ summary' = display_lines(rfps)
    /\ displayed' = TRUE
    /\ UNCHANGED <<world, fs, run, pc, hashseed, today, config, rfps,
                   exit_code, outcome, fetched, returned, saved, prev, log>>

\* gatherer.save_to_file(filename)
ApiSave ==
    /\ pc = "api"
    /\ calls < MaxCalls
    /\ calls' = calls + 1
    /\ \E filename \in {NONE, "export.json"}, io \in IO_RESULTS :
         LET f == save_filename(config, filename)
         IN  IF f.raised # ""
             THEN /\ saved' = [path |-> NONE, status |-> "failed",
                               before |-> ABSENT, at |-> calls']
                  /\ UNCHANGED fs
             ELSE /\ saved' = [path |-> f.path,
                               status |-> IF io = "ok" THEN "ok" ELSE "failed",
                               before |-> fs[f.path], at |-> calls']
                  /\ fs' = [fs EXCEPT ![f.path] =
                              IF io = "ok"
                              THEN Complete(output_data(rfps, iso_now(today)))
                              ELSE IF io = "write_fails" THEN PARTIAL_FILE
                              ELSE @]
    /\ UNCHANGED <<world, run, pc, hashseed, today, config, rfps, exit_code,
                   outcome, fetched, returned, summary, displayed, prev, log>>

NextAPI ==
    \/ ApiGather
    \/ ApiDisplay
    \/ ApiSave

SpecAPI == InitAPI /\ [][NextAPI]_vars

(***************************************************************************)
(* Properties.                                                             *)
(***************************************************************************)
\* the source fetch of this execution failed: the request, the parse of
\* the page, or the parse of an element
FetchFailed ==
    \/ outcome \in REQUEST_FAILURES \cup {"ParseError"}
    \/ outcome = "ok" /\ \E i \in 1..Len(rfp_elements(page)) :
                             rfp_elements(page)[i].raises

\* C1: failure isolation.  Whenever the source fetch failed, the fetch
\* returned to gather_rfps (main went on to display_summary), an execution
\* that has ended went through display_summary and save_to_file, and it
\* ended with exit code 0 if the write succeeded.
C1_FailureIsolation ==
    FetchFailed =>
        /\ pc \in {"display", "save", "write", "exited"}
        /\ returned = rfps
        /\ pc = "exited" => displayed /\ saved.status \in {"ok", "failed"}
        /\ pc = "exited" /\ saved.status = "ok" => exit_code = 0

\* C1 witness: the parse of the page raised, and the execution ended with
\* exit code 0 after writing the artifact
C1_Witness ==
    /\ pc = "exited"
    /\ outcome = "ParseError"
    /\ displayed
    /\ saved.status = "ok"
    /\ exit_code = 0
    /\ fs[saved.path].kind = "complete"

\* the source yielded no candidate: the request failed, or the page was
\* fetched and no element passed extraction
ZeroCandidates ==
    \/ outcome \in REQUEST_FAILURES
    \/ outcome = "ok" /\ scraped(page, hashseed, today) = <<>>

\* C2: when the source yields zero candidates, the written artifact has
\* total_rfps 0 and an empty rfps array.
C2_EmptyBatchOnZeroCandidates ==
    (pc = "exited" /\ saved.status = "ok" /\ ZeroCandidates) =>
        /\ fs[saved.path].data.total_rfps = 0
        /\ fs[saved.path].data.rfps = <<>>

\* C3: no two records of the list gather_rfps returns share source and
\* notice_id.
C3_UniqueNoticeIds ==
    \A i, j \in 1..Len(returned) :
        i # j => ~(/\ returned[i].source = returned[j].source
                   /\ returned[i].notice_id = returned[j].notice_id)

\* C4: two executions that scraped the same page on the same day hold the
\* same records.
C4_DeterministicAcrossRuns ==
    (/\ run > 1
     /\ prev.live
     /\ outcome = "ok"
     /\ prev.today = today) => rfps = prev.rfps

\* C5: the list the latest gather_rfps call returned holds only the
\* records that call produced.
C5_FreshBatchPerCall ==
    log # <<>> => returned = log[Len(log)]

\* C6: atomic persist.  A complete artifact at an output path is only ever
\* replaced by a complete artifact, and a save_to_file that failed over a
\* complete artifact is raised to main (exit code 1) and left it as it was.
C6_AtomicPersist ==
    [][ /\ \A p \in PATHS :
             fs[p].kind = "complete" =>
                 fs'[p] = fs[p] \/ fs'[p].kind = "complete"
        /\ (saved'.status = "failed" /\ saved'.before.kind = "complete") =>
              exit_code' = 1 /\ fs'[saved'.path] = saved'.before ]_vars

\* the configuration file is missing, is not JSON, or is not a mapping
ConfigInvalid ==
    cfgfile.kind # "json" \/ cfgfile.value.type # "dict"

\* C7: exit codes and ordering.  An execution with a missing or invalid
\* configuration file ends with exit code 1 and never invoked the fetch; one
\* whose save_to_file failed ends with exit code 1; every other ends with
\* exit code 0 after the artifact was written.
C7_ExitCodes ==
    pc = "exited" =>
        /\ ConfigInvalid => exit_code = 1 /\ outcome = "none"
        /\ saved.status = "failed" => exit_code = 1
        /\ (~ConfigInvalid /\ saved.status # "failed") =>
              /\ exit_code = 0
              /\ saved.status = "ok"
              /\ fs[saved.path].kind = "complete"

\* C8: no record the fetch returned has a title shorter than the
\* configured min_title_length.
C8_MinTitleLength ==
    (config.type = "dict" /\ "min_title_length" \in DOMAIN config.items) =>
        \A i \in 1..Len(fetched) :
            Len(fetched[i].title) >= config.items.min_title_length

SchemeChars ==
    CharsOf(AsciiLower) \cup (CharsOf(AsciiUpper) \ {"@"}) \cup Digits \cup {"-", "."}

\* href starts with a URI scheme: letters, digits, "-" and "." up to a ":"
HasScheme(h) ==
    \E k \in 2..Len(h) :
        /\ CharAt(h, k) = ":"
        /\ CharAt(h, 1) \in CharsOf(AsciiLower) \cup (CharsOf(AsciiUpper) \ {"@"})
        /\ \A m \in 1..(k - 1) : CharAt(h, m) \in SchemeChars

\* the href resolved against the base https://www.in.gov as a URI reference
\* is; an absent or empty href is the page's own URL
ResolvedAgainstBase(h) ==
    IF h = "" THEN PAGE_URL
    ELSE IF HasScheme(h) THEN h
    ELSE IF StartsWith(h, "//") THEN "https:" \o h
    ELSE IF StartsWith(h, "/") \/ StartsWith(h, "#") THEN "https://www.in.gov" \o h
    ELSE "https://www.in.gov/" \o h

\* C9: every record scraped from the page carries the href of its element
\* resolved against the base, and the page URL when there is none.
C9_UrlsResolved ==
    (outcome = "ok" /\ scraped(page, hashseed, today) # <<>>) =>
        \A i \in 1..Len(fetched) :
            \E k \in 1..Len(rfp_elements(page)) :
                LET e == rfp_elements(page)[k]
                IN  /\ extract_element(e, hashseed, today) = <<fetched[i]>>
                    /\ fetched[i].url = ResolvedAgainstBase(element_href(e))

RECURSIVE Flatten(_)
Flatten(lists) ==
    IF lists = <<>> THEN <<>> ELSE Head(lists) \o Flatten(Tail(lists))

\* C10: in every artifact written, total_rfps is the length of the rfps
\* array; a save_to_file call leaves self.rfps as it was, and the array it
\* writes is the records of all gather_rfps calls so far, in order.
C10_ArtifactMatchesList ==
    /\ [](\A p \in PATHS :
              fs[p].kind = "complete" =>
                  fs[p].data.total_rfps = Len(fs[p].data.rfps))
    /\ [][ (calls' = calls + 1 /\ saved'.at = calls') =>
              /\ rfps' = rfps
              /\ saved'.status = "ok" =>
                    fs'[saved'.path].data.rfps = Flatten(log) ]_vars

\* C10 witness: an artifact written after two gather_rfps calls
C10_Witness ==
    /\ Len(log) >= 2
    /\ saved.status = "ok"
    /\ saved.at = calls
    /\ fs[saved.path].kind = "complete"
    /\ fs[saved.path].data.total_rfps >= 2
    /\ fs[saved.path].data.rfps = rfps

=============================================================================
